---- MODULE Spec2Model ----
(***************************************************************************)
(* A model of srgan.py: the SRGAN class (network construction in __init__, *)
(* build_generator, build_discriminator), the training loop `train`, and   *)
(* the evaluation `test_images`.                                           *)
(*                                                                         *)
(* Tensors are modelled by their shapes <<height, width, channels>>, a     *)
(* network by the sequence of its layers, a model's weights by the number  *)
(* of optimizer updates applied to them, a batch of images by the number   *)
(* of the load_data call that returned it.                                 *)
(***************************************************************************)
EXTENDS Integers, Sequences, FiniteSets, TLC

(***************************************************************************)
(* Program constants.                                                      *)
(***************************************************************************)
channels == 3
lr_height == 64
lr_width == 64
UpscaleFactor == 4
n_residual_blocks == 16
gf == 64
df == 64
PatchDownsamplings == 4
PreFilters == 64
PostFilters == 64
UpFilters == 256
SaveEvery == 500
TestEpoch == 2000

(***************************************************************************)
(* Bounds of the model.                                                    *)
(***************************************************************************)
MaxDim == 3
MaxResidual == 2
MaxBatch == 2
MaxEpochs == 2
Scale == 8

\* Heights and widths of the low-resolution input tried by SpecBuild.
DimChoices == (1..MaxDim) \cup {lr_height}
\* Numbers of residual blocks tried by SpecBuild.
ResidualChoices == (0..MaxResidual) \cup {n_residual_blocks}
\* Arguments of train tried by Spec.
EpochsChoices == (0..MaxEpochs) \cup {SaveEvery + 1}
BatchChoices == 1..MaxBatch
\* Numbers of images a load_data(..., is_pred=True) call may return: the loader
\* is not part of srgan.py.
ImageCounts == 1..MaxBatch
SampleIntervalChoices == {2, 5, 20}

(***************************************************************************)
(* Layers and their output shapes (Keras, data_format channels_last).      *)
(***************************************************************************)
InvalidShape == <<0, 0, 0>>

CeilDiv(a, b) == (a + b - 1) \div b

Layer(op, blk, in, skip, strides, out) ==
    [op |-> op, blk |-> blk, in |-> in, skip |-> skip, strides |-> strides, out |-> out]

Out(layers) == layers[Len(layers)].out

\* Conv2D(filters, kernel_size, strides, padding='same'): 'same' padding gives
\* ceil(size / strides) whatever the kernel size.
Conv2D(blk, in, filters, kernel_size, strides) ==
    Layer("Conv2D", blk, in, in, strides,
          <<CeilDiv(in[1], strides), CeilDiv(in[2], strides), filters>>)

Activation(blk, in) == Layer("Activation", blk, in, in, 1, in)

LeakyReLU(blk, in) == Layer("LeakyReLU", blk, in, in, 1, in)

BatchNormalization(blk, in) == Layer("BatchNormalization", blk, in, in, 1, in)

UpSampling2D(blk, in, size) ==
    Layer("UpSampling2D", blk, in, in, 1, <<in[1] * size, in[2] * size, in[3]>>)

\* Dense acts on the last axis only.
Dense(blk, in, units) == Layer("Dense", blk, in, in, 1, <<in[1], in[2], units>>)

\* Add()([a, b]) needs inputs of one shape.
Add(blk, a, b) == Layer("Add", blk, a, b, 1, IF a = b THEN a ELSE InvalidShape)

(***************************************************************************)
(* build_generator                                                         *)
(***************************************************************************)
residual_block(layer_input, filters) ==
    LET d1 == Conv2D("residual", layer_input, filters, 3, 1)
        d2 == Activation("residual", d1.out)
        d3 == BatchNormalization("residual", d2.out)
        d4 == Conv2D("residual", d3.out, filters, 3, 1)
        d5 == BatchNormalization("residual", d4.out)
        d6 == Add("residual", d5.out, layer_input)
    IN  <<d1, d2, d3, d4, d5, d6>>

\* deconv2d without its UpSampling2D layer.
deconv2d_noUpsampling(layer_input) ==
    LET u2 == Conv2D("upsampling", layer_input, UpFilters, 3, 1)
        u3 == Activation("upsampling", u2.out)
    IN  <<u2, u3>>

deconv2d(layer_input) ==
    LET u1 == UpSampling2D("upsampling", layer_input, 2)
        u2 == Conv2D("upsampling", u1.out, UpFilters, 3, 1)
        u3 == Activation("upsampling", u2.out)
    IN  <<u1, u2, u3>>

\* for _ in range(k): r = residual_block(r, filters)
RECURSIVE residual_loop(_, _, _)
residual_loop(r, filters, k) ==
    IF k <= 0 THEN <<>>
    ELSE LET blk == residual_block(r, filters)
         IN  blk \o residual_loop(Out(blk), filters, k - 1)

build_generator(lrs, nblocks) ==
    LET pre   == <<Conv2D("pre", lrs, PreFilters, 9, 1)>>
        pre2  == pre \o <<Activation("pre", Out(pre))>>
        c1    == Out(pre2)
        first == residual_block(c1, gf)
        rest  == residual_loop(Out(first), gf, nblocks - 1)
        r     == Out(first \o rest)
        p1    == Conv2D("post", r, PostFilters, 3, 1)
        p2    == BatchNormalization("post", p1.out)
        c2    == Add("post", p2.out, c1)
        u1    == deconv2d(c2.out)
        u2    == deconv2d(Out(u1))
        gen   == Conv2D("output", Out(u2), channels, 9, 1)
    IN  pre2 \o first \o rest \o <<p1, p2, c2>> \o u1 \o u2 \o <<gen>>

(***************************************************************************)
(* build_discriminator                                                     *)
(***************************************************************************)
\* d_block that does not pass `strides` on to Conv2D.
d_block_stride1(layer_input, filters, strides, bn) ==
    LET d1 == Conv2D("d_block", layer_input, filters, 3, 1)
        d2 == LeakyReLU("d_block", d1.out)
    IN  IF bn THEN <<d1, d2, BatchNormalization("d_block", d2.out)>> ELSE <<d1, d2>>

d_block(layer_input, filters, strides, bn) ==
    LET d1 == Conv2D("d_block", layer_input, filters, 3, strides)
        d2 == LeakyReLU("d_block", d1.out)
    IN  IF bn THEN <<d1, d2, BatchNormalization("d_block", d2.out)>> ELSE <<d1, d2>>

build_discriminator(hrs) ==
    LET d1  == d_block(hrs, df, 1, FALSE)
        d2  == d_block(Out(d1), df, 2, TRUE)
        d3  == d_block(Out(d2), df * 2, 1, TRUE)
        d4  == d_block(Out(d3), df * 2, 2, TRUE)
        d5  == d_block(Out(d4), df * 4, 1, TRUE)
        d6  == d_block(Out(d5), df * 4, 2, TRUE)
        d7  == d_block(Out(d6), df * 8, 1, TRUE)
        d8  == d_block(Out(d7), df * 8, 2, TRUE)
        d9  == Dense("dense", Out(d8), df * 16)
        d10 == LeakyReLU("dense", d9.out)
        validity == Dense("validity", d10.out, 1)
    IN  d1 \o d2 \o d3 \o d4 \o d5 \o d6 \o d7 \o d8 \o <<d9, d10, validity>>

\* hr_shape = (lr_height * 4, lr_width * 4, channels)
HrShape(lrs) == <<lrs[1] * UpscaleFactor, lrs[2] * UpscaleFactor, lrs[3]>>

\* patch = int(hr_height / 2 ** 4); disc_patch = (patch, patch, 1)
DiscPatch(hrs) ==
    LET patch == hrs[1] \div (2 ^ PatchDownsamplings) IN <<patch, patch, 1>>


(***************************************************************************)
(* Tensors, batches and label arrays.                                      *)
(***************************************************************************)
Nets == {"vgg", "discriminator", "generator"}
Models == {"vgg", "discriminator", "combined"}

NoTensor == <<"none", 0>>
Tensor(kind, batch) == <<kind, batch>>

\* np.ones(shape), np.zeros(shape)
np_ones(shape) == [value |-> 1, shape |-> shape]
np_zeros(shape) == [value |-> 0, shape |-> shape]
NoLabels == [value |-> -1, shape |-> <<>>]

\* The shape of a network's output for a batch of n images.
BatchOut(n, layers) == <<n>> \o Out(layers)

(***************************************************************************)
(* Keras: a model trains the weights that were trainable when it was       *)
(* compiled. The networks a model is made of:                              *)
(***************************************************************************)
Members(m) ==
    CASE m = "vgg" -> {"vgg"}
      [] m = "discriminator" -> {"discriminator"}
      [] m = "combined" -> {"generator", "vgg", "discriminator"}

NotCompiled == [done |-> FALSE, collected |-> {}]

Compile(m, flags) == [done |-> TRUE, collected |-> {n \in Members(m) : flags[n]}]

\* train_on_batch: one optimizer update of the collected weights.
TrainOnBatch(c, w) == [n \in Nets |-> IF n \in c.collected THEN w[n] + 1 ELSE w[n]]

(***************************************************************************)
(* train: the loop conditions.                                             *)
(***************************************************************************)
\* for epoch in range(epochs)
InRange(e, n) == e < n

\* if epoch > 30: sample_interval = 10; if epoch > 100: sample_interval = 50
NextSampleInterval(e, si) ==
    LET s1 == IF e > 30 THEN 10 ELSE si
    IN  IF e > 100 THEN 50 ELSE s1

\* if epoch % sample_interval == 0
SampleDue(e, si) == e % si = 0

\* if epoch % 500 == 0 and epoch > 1
SaveDue(e) == e % SaveEvery = 0 /\ e > 1

\* plt.subplots(r, c) with c > 1 returns a one-dimensional array of axes when
\* r = 1, and axs[row, col] then raises IndexError (lines 249 and 301).
AxsIndexRaises(rows) == rows = 1

\* The file saved_model/<e>.h5 holding the generator weights w, written by
\* `by`: this run's train, or an earlier run of the program.
WeightFile(e, w, by) == [epoch |-> e, weights |-> w, by |-> by]

\* save_weights(path): the file of that name is replaced.
SaveWeights(fs, e, w) == {f \in fs : f.epoch # e} \cup {WeightFile(e, w, "train")}

VARIABLES
    pc,                 \* position in __init__, __main__, train, test_images
    lr_shape, hr_shape, \* self.lr_shape, self.hr_shape
    nblocks,            \* self.n_residual_blocks
    disc_patch,         \* self.disc_patch
    generator,          \* layers of self.generator
    discriminator,      \* layers of self.discriminator
    trainable,          \* the trainable flag of each network
    compiled,           \* what each compiled model trains
    weights,            \* number of updates applied to each network's weights
    epochs, batch_size, \* train's arguments
    sample_interval,    \* train's argument and local
    arg_sample_interval,\* the sample_interval the caller passed
    epoch,              \* train's loop variable
    nloads,             \* number of load_data calls so far
    imgs_hr, imgs_lr, fake_hr, valid, fake, image_features, \* train's locals
    calls,              \* calls made in the current iteration of train
    iterations,         \* iterations of train completed
    samples,            \* epochs with a file images/<epoch>.png
    files,              \* the files saved_model/<epoch>.h5
    loaded,             \* the weight file test_images loaded (0: none)
    dirs,               \* the directories that exist in the working directory
    r,                  \* test_images' r: the number of images it loaded (0: none yet)
    img_real, img_generated, \* pixels in test_images, as <<numerator, denominator>>
    score_real, score_generated \* the uint8 pixels handed to psnr and ssim

shapeVars == <<lr_shape, hr_shape, nblocks, disc_patch, generator, discriminator>>
kerasVars == <<trainable, compiled, weights>>
argVars == <<epochs, batch_size, arg_sample_interval>>
localVars == <<imgs_hr, imgs_lr, fake_hr, valid, fake, image_features>>
outVars == <<samples, files, loaded, dirs>>
trainVars == <<argVars, sample_interval, epoch, nloads, localVars, calls, iterations, outVars>>
scoreVars == <<r, img_real, img_generated, score_real, score_generated>>
vars == <<pc, shapeVars, kerasVars, trainVars, scoreVars>>

(***************************************************************************)
(* __init__                                                                *)
(***************************************************************************)
InitKeras ==
    /\ trainable = [n \in Nets |-> TRUE]
    /\ compiled = [m \in Models |-> NotCompiled]
    /\ weights = [n \in Nets |-> 0]

InitTrain ==
    /\ epochs = 0 /\ batch_size = 1 /\ sample_interval = 5 /\ arg_sample_interval = 5
    /\ epoch = 0 /\ nloads = 0
    /\ imgs_hr = NoTensor /\ imgs_lr = NoTensor /\ fake_hr = NoTensor
    /\ valid = NoLabels /\ fake = NoLabels /\ image_features = NoTensor
    /\ calls = <<>> /\ iterations = 0
    /\ samples = {}

\* What an earlier run of the program may have left in ./saved_model: nothing,
\* or the weights it saved at epoch 500 or at epoch 2000.
EarlierFiles ==
    {{}} \cup {{WeightFile(e, e + 1, "earlier")} : e \in {SaveEvery, TestEpoch}}

\* The working directory the program is started in: ./saved_model, ./res and
\* ./images may exist or not, and ./saved_model may hold a weight file.
InitDirs ==
    /\ dirs \in SUBSET {"saved_model", "res", "images"}
    /\ files \in (IF "saved_model" \in dirs THEN EarlierFiles ELSE {{}})

InitScore ==
    /\ r = 0
    /\ img_real = <<0, 1>> /\ img_generated = <<0, 1>>
    /\ score_real = 0 /\ score_generated = 0

\* Lines 22-31 with the shape and the number of residual blocks given.
InitShapes(lrs, n) ==
    /\ lr_shape = lrs
    /\ hr_shape = HrShape(lrs)
    /\ nblocks = n
    /\ disc_patch = <<0, 0, 0>>
    /\ generator = <<>>
    /\ discriminator = <<>>

\* self.vgg = self.build_vgg()
BuildVgg ==
    /\ pc = "build_vgg"
    /\ pc' = "vgg_trainable"
    /\ UNCHANGED <<shapeVars, kerasVars, trainVars, scoreVars>>

\* __init__ without line 38.
VggFreeze_skipped ==
    /\ pc = "vgg_trainable"
    /\ pc' = "vgg_compile"
    /\ UNCHANGED <<shapeVars, kerasVars, trainVars, scoreVars>>

\* self.vgg.trainable = False
VggFreeze ==
    /\ pc = "vgg_trainable"
    /\ trainable' = [trainable EXCEPT !["vgg"] = FALSE]
    /\ pc' = "vgg_compile"
    /\ UNCHANGED <<shapeVars, compiled, weights, trainVars, scoreVars>>

\* self.vgg.compile(...)
VggCompile ==
    /\ pc = "vgg_compile"
    /\ compiled' = [compiled EXCEPT !["vgg"] = Compile("vgg", trainable)]
    /\ pc' = "disc_patch"
    /\ UNCHANGED <<shapeVars, trainable, weights, trainVars, scoreVars>>

\* patch = int(self.hr_height / 2 ** 4); self.disc_patch = (patch, patch, 1)
SetDiscPatch ==
    /\ pc = "disc_patch"
    /\ disc_patch' = DiscPatch(hr_shape)
    /\ pc' = "build_discriminator"
    /\ UNCHANGED <<lr_shape, hr_shape, nblocks, generator, discriminator,
                   kerasVars, trainVars, scoreVars>>

\* self.discriminator = self.build_discriminator()
BuildDiscriminator ==
    /\ pc = "build_discriminator"
    /\ discriminator' = build_discriminator(hr_shape)
    /\ pc' = "disc_compile"
    /\ UNCHANGED <<lr_shape, hr_shape, nblocks, disc_patch, generator,
                   kerasVars, trainVars, scoreVars>>

\* self.discriminator.compile(...)
DiscCompile ==
    /\ pc = "disc_compile"
    /\ compiled' = [compiled EXCEPT !["discriminator"] = Compile("discriminator", trainable)]
    /\ pc' = "build_generator"
    /\ UNCHANGED <<shapeVars, trainable, weights, trainVars, scoreVars>>

\* self.generator = self.build_generator()
BuildGenerator ==
    /\ pc = "build_generator"
    /\ generator' = build_generator(lr_shape, nblocks)
    /\ pc' = "disc_trainable"
    /\ UNCHANGED <<lr_shape, hr_shape, nblocks, disc_patch, discriminator,
                   kerasVars, trainVars, scoreVars>>

\* __init__ without line 78.
DiscFreeze_skipped ==
    /\ pc = "disc_trainable"
    /\ pc' = "combined_compile"
    /\ UNCHANGED <<shapeVars, kerasVars, trainVars, scoreVars>>

\* self.discriminator.trainable = False
DiscFreeze ==
    /\ pc = "disc_trainable"
    /\ trainable' = [trainable EXCEPT !["discriminator"] = FALSE]
    /\ pc' = "combined_compile"
    /\ UNCHANGED <<shapeVars, compiled, weights, trainVars, scoreVars>>

\* self.combined = Model(...); self.combined.compile(...)
CombinedCompile ==
    /\ pc = "combined_compile"
    /\ compiled' = [compiled EXCEPT !["combined"] = Compile("combined", trainable)]
    /\ pc' = "main"
    /\ UNCHANGED <<shapeVars, trainable, weights, trainVars, scoreVars>>

(***************************************************************************)
(* SpecBuild: the constructor for any input shape and any number of        *)
(* residual blocks.                                                        *)
(***************************************************************************)
InitBuild ==
    /\ pc = "build_vgg"
    /\ \E h \in DimChoices, w \in DimChoices, n \in ResidualChoices :
          InitShapes(<<h, w, channels>>, n)
    /\ InitKeras
    /\ InitTrain
    /\ InitDirs
    /\ loaded = 0
    /\ InitScore

NextBuild ==
    \/ BuildVgg
    \/ VggFreeze
    \/ VggCompile
    \/ SetDiscPatch
    \/ BuildDiscriminator
    \/ DiscCompile
    \/ BuildGenerator
    \/ DiscFreeze
    \/ CombinedCompile

SpecBuild == InitBuild /\ [][NextBuild]_vars


(***************************************************************************)
(* __main__: gan.train(...) (line 311) and gan.test_images() (line 312).   *)
(***************************************************************************)
Call(step, x, y, out) == [step |-> step, x |-> x, y |-> y, out |-> out]

\* gan.train(epochs, batch_size, sample_interval)
CallTrain ==
    /\ pc = "main"
    /\ \E e \in EpochsChoices, b \in BatchChoices, si \in SampleIntervalChoices :
          /\ epochs' = e
          /\ batch_size' = b
          /\ sample_interval' = si
          /\ arg_sample_interval' = si
    /\ epoch' = 0
    /\ pc' = "loop"
    /\ UNCHANGED <<shapeVars, kerasVars, nloads, localVars, calls, iterations,
                   outVars, scoreVars>>

(***************************************************************************)
(* train                                                                   *)
(***************************************************************************)
\* for epoch in range(epochs): the next iteration starts; lines 185-188.
ForEpoch ==
    /\ pc = "loop"
    /\ InRange(epoch, epochs)
    /\ sample_interval' = NextSampleInterval(epoch, sample_interval)
    /\ calls' = <<>>
    /\ pc' = "load_data"
    /\ UNCHANGED <<shapeVars, kerasVars, argVars, epoch, nloads, localVars,
                   iterations, outVars, scoreVars>>

\* range(epochs) is exhausted: train returns.
TrainReturn ==
    /\ pc = "loop"
    /\ ~InRange(epoch, epochs)
    /\ pc' = "main_test"
    /\ UNCHANGED <<shapeVars, kerasVars, trainVars, scoreVars>>

\* imgs_hr, imgs_lr = self.data_loader.load_data(batch_size)  (line 195)
LoadData ==
    /\ pc = "load_data"
    /\ nloads' = nloads + 1
    /\ imgs_hr' = Tensor("hr", nloads + 1)
    /\ imgs_lr' = Tensor("lr", nloads + 1)
    /\ calls' = Append(calls, Call("load_data", NoTensor, NoLabels, nloads + 1))
    /\ pc' = "generate"
    /\ UNCHANGED <<shapeVars, kerasVars, argVars, sample_interval, epoch, fake_hr,
                   valid, fake, image_features, iterations, outVars, scoreVars>>

\* fake_hr = self.generator.predict(imgs_lr)
GeneratorPredict ==
    /\ pc = "generate"
    /\ fake_hr' = Tensor("fake", imgs_lr[2])
    /\ calls' = Append(calls, Call("generator.predict", imgs_lr, NoLabels, imgs_lr[2]))
    /\ pc' = "labels"
    /\ UNCHANGED <<shapeVars, kerasVars, argVars, sample_interval, epoch, nloads,
                   imgs_hr, imgs_lr, valid, fake, image_features, iterations,
                   outVars, scoreVars>>

\* valid = np.ones((batch_size,) + self.disc_patch); fake = np.zeros(...)
MakeLabels ==
    /\ pc = "labels"
    /\ valid' = np_ones(<<batch_size>> \o disc_patch)
    /\ fake' = np_zeros(<<batch_size>> \o disc_patch)
    /\ pc' = "d_real"
    /\ UNCHANGED <<shapeVars, kerasVars, argVars, sample_interval, epoch, nloads,
                   imgs_hr, imgs_lr, fake_hr, image_features, calls, iterations,
                   outVars, scoreVars>>

\* d_loss_real = self.discriminator.train_on_batch(imgs_hr, valid)
TrainDiscriminatorReal ==
    /\ pc = "d_real"
    /\ weights' = TrainOnBatch(compiled["discriminator"], weights)
    /\ calls' = Append(calls, Call("discriminator.train_on_batch", imgs_hr, valid, 0))
    /\ pc' = "d_fake"
    /\ UNCHANGED <<shapeVars, trainable, compiled, argVars, sample_interval, epoch,
                   nloads, localVars, iterations, outVars, scoreVars>>

\* Line 205 with `valid` as the target.
TrainDiscriminatorFake_validTarget ==
    /\ pc = "d_fake"
    /\ weights' = TrainOnBatch(compiled["discriminator"], weights)
    /\ calls' = Append(calls, Call("discriminator.train_on_batch", fake_hr, valid, 0))
    /\ pc' = "load_data2"
    /\ UNCHANGED <<shapeVars, trainable, compiled, argVars, sample_interval, epoch,
                   nloads, localVars, iterations, outVars, scoreVars>>

\* d_loss_fake = self.discriminator.train_on_batch(fake_hr, fake)
TrainDiscriminatorFake ==
    /\ pc = "d_fake"
    /\ weights' = TrainOnBatch(compiled["discriminator"], weights)
    /\ calls' = Append(calls, Call("discriminator.train_on_batch", fake_hr, fake, 0))
    /\ pc' = "load_data2"
    /\ UNCHANGED <<shapeVars, trainable, compiled, argVars, sample_interval, epoch,
                   nloads, localVars, iterations, outVars, scoreVars>>

\* imgs_hr, imgs_lr = self.data_loader.load_data(batch_size)  (line 213)
LoadData2 ==
    /\ pc = "load_data2"
    /\ nloads' = nloads + 1
    /\ imgs_hr' = Tensor("hr", nloads + 1)
    /\ imgs_lr' = Tensor("lr", nloads + 1)
    /\ calls' = Append(calls, Call("load_data", NoTensor, NoLabels, nloads + 1))
    /\ pc' = "valid"
    /\ UNCHANGED <<shapeVars, kerasVars, argVars, sample_interval, epoch, fake_hr,
                   valid, fake, image_features, iterations, outVars, scoreVars>>

\* valid = np.ones((batch_size,) + self.disc_patch)  (line 216)
MakeValid ==
    /\ pc = "valid"
    /\ valid' = np_ones(<<batch_size>> \o disc_patch)
    /\ pc' = "features"
    /\ UNCHANGED <<shapeVars, kerasVars, argVars, sample_interval, epoch, nloads,
                   imgs_hr, imgs_lr, fake_hr, fake, image_features, calls,
                   iterations, outVars, scoreVars>>

\* image_features = self.vgg.predict(imgs_hr)
VggPredict ==
    /\ pc = "features"
    /\ image_features' = Tensor("features", imgs_hr[2])
    /\ calls' = Append(calls, Call("vgg.predict", imgs_hr, NoLabels, imgs_hr[2]))
    /\ pc' = "g_train"
    /\ UNCHANGED <<shapeVars, kerasVars, argVars, sample_interval, epoch, nloads,
                   imgs_hr, imgs_lr, fake_hr, valid, fake, iterations, outVars,
                   scoreVars>>

\* g_loss = self.combined.train_on_batch([imgs_lr, imgs_hr], [valid, image_features])
TrainCombined ==
    /\ pc = "g_train"
    /\ weights' = TrainOnBatch(compiled["combined"], weights)
    /\ calls' = Append(calls, Call("combined.train_on_batch", <<imgs_lr, imgs_hr>>,
                                   <<valid, image_features>>, 0))
    /\ pc' = "epoch_end"
    /\ UNCHANGED <<shapeVars, trainable, compiled, argVars, sample_interval, epoch,
                   nloads, localVars, iterations, outVars, scoreVars>>

\* The calls of sample_images_new: one test batch is loaded and generated from.
SampleCalls(n) == <<Call("sample_images_new.load_data", NoTensor, NoLabels, n),
                    Call("sample_images_new.generator.predict", Tensor("lr", n), NoLabels, n)>>

\* Lines 224-232. sample_images_new(epoch) when due: it creates ./images,
\* loads a test batch of n images and generates from it, and raises IndexError
\* at axs[row, col] when n = 1, before the figure is saved. Then save_weights
\* when due, which raises when ./saved_model does not exist (train does not
\* create it). An exception leaves train; otherwise the iteration ends.
EpochEnd ==
    /\ pc = "epoch_end"
    /\ \E n \in ImageCounts :
          LET due == SampleDue(epoch, sample_interval)
              sample_raises == due /\ AxsIndexRaises(n)
              save_raises == SaveDue(epoch) /\ "saved_model" \notin dirs
          IN  /\ IF due
                 THEN /\ dirs' = dirs \cup {"images"}
                      /\ nloads' = nloads + 1
                      /\ calls' = calls \o SampleCalls(nloads + 1)
                 ELSE UNCHANGED <<dirs, nloads, calls>>
              /\ samples' = IF due /\ ~sample_raises
                            THEN samples \cup {epoch}
                            ELSE samples
              /\ IF sample_raises \/ save_raises
                 THEN /\ pc' = "train_raised"
                      /\ UNCHANGED <<files, iterations, epoch>>
                 ELSE /\ files' = IF SaveDue(epoch)
                                  THEN SaveWeights(files, epoch, weights["generator"])
                                  ELSE files
                      /\ iterations' = iterations + 1
                      /\ epoch' = epoch + 1
                      /\ pc' = "loop"
    /\ UNCHANGED <<shapeVars, kerasVars, argVars, sample_interval, localVars,
                   loaded, scoreVars>>

(***************************************************************************)
(* test_images                                                             *)
(***************************************************************************)
\* Pixel values v in [-1, 1] are the fractions k / Scale.
Pixels == {<<k, Scale>> : k \in (0 - Scale)..Scale}

\* 0.5 * v + 0.5
Rescale(v) == <<v[1] + v[2], 2 * v[2]>>

\* Truncation toward zero of n / d (d > 0), as astype does.
Trunc(n, d) == IF n >= 0 THEN n \div d ELSE 0 - ((0 - n) \div d)

\* ((v + 1) * 127.5).astype(np.uint8)
ToUint8(v) == Trunc((v[1] + v[2]) * 255, 2 * v[2]) % 256

\* The value before the cast, as a fraction.
BeforeCast(v) == <<(v[1] + v[2]) * 255, 2 * v[2]>>

\* imgs_hr, imgs_lr = self.data_loader.load_data(batch_size, is_pred=True):
\* the batch has n images, which is imgs_hr.shape[0], the r of line 239.
TestLoadData ==
    /\ pc \in {"main", "main_test"}
    /\ nloads' = nloads + 1
    /\ imgs_hr' = Tensor("hr", nloads + 1)
    /\ imgs_lr' = Tensor("lr", nloads + 1)
    /\ \E n \in ImageCounts : r' = n
    /\ pc' = "test_load_weights"
    /\ UNCHANGED <<shapeVars, kerasVars, argVars, sample_interval, epoch, fake_hr,
                   valid, fake, image_features, calls, iterations, outVars,
                   img_real, img_generated, score_real, score_generated>>

\* os.makedirs('saved_model/', exist_ok=True);
\* self.generator.load_weights('./saved_model/2000.h5'): raises when the file
\* is missing.
TestLoadWeights ==
    /\ pc = "test_load_weights"
    /\ IF \E f \in files : f.epoch = TestEpoch
       THEN /\ \E f \in files :
                 /\ f.epoch = TestEpoch
                 /\ weights' = [weights EXCEPT !["generator"] = f.weights]
            /\ loaded' = TestEpoch
            /\ pc' = "test_predict"
       ELSE /\ pc' = "error"
            /\ UNCHANGED <<weights, loaded>>
    /\ dirs' = dirs \cup {"saved_model"}
    /\ UNCHANGED <<shapeVars, trainable, compiled, argVars, sample_interval, epoch,
                   nloads, localVars, calls, iterations, samples, files, scoreVars>>

\* fake_hr = self.generator.predict(imgs_lr): a pixel of the real image and
\* the pixel of the generated image (tanh output) at the same place.
TestPredict ==
    /\ pc = "test_predict"
    /\ fake_hr' = Tensor("fake", imgs_lr[2])
    /\ \E p \in Pixels, g \in Pixels :
          /\ img_real' = p
          /\ img_generated' = g
    /\ pc' = "test_rescale"
    /\ UNCHANGED <<shapeVars, kerasVars, argVars, sample_interval, epoch, nloads,
                   imgs_hr, imgs_lr, valid, fake, image_features, calls,
                   iterations, outVars, r, score_real, score_generated>>

\* fake_hr = 0.5 * fake_hr + 0.5; imgs_hr = 0.5 * imgs_hr + 0.5
TestRescale ==
    /\ pc = "test_rescale"
    /\ img_generated' = Rescale(img_generated)
    /\ img_real' = Rescale(img_real)
    /\ pc' = "test_save"
    /\ UNCHANGED <<shapeVars, kerasVars, trainVars, r, score_real, score_generated>>

\* Lines 245-258: the figure of r rows and 2 columns is drawn, axs[row, col]
\* raising IndexError when r = 1; then it is saved to ./result.png and the
\* images to ./res, which test_images does not create: plt.imsave raises when
\* it is missing.
TestSaveImages ==
    /\ pc = "test_save"
    /\ pc' = IF AxsIndexRaises(r) \/ "res" \notin dirs
             THEN "test_raised"
             ELSE "test_score"
    /\ UNCHANGED <<shapeVars, kerasVars, trainVars, scoreVars>>

\* img_real = ((img_real + 1) * 127.5).astype(np.uint8), the same for
\* img_generated; psnr and ssim are computed from these.
TestScore ==
    /\ pc = "test_score"
    /\ score_real' = ToUint8(img_real)
    /\ score_generated' = ToUint8(img_generated)
    /\ pc' = "done"
    /\ UNCHANGED <<shapeVars, kerasVars, trainVars, r, img_real, img_generated>>

(***************************************************************************)
(* Spec: the program as configured: SRGAN(), then train (optional, as line *)
(* 311 is commented out) and test_images.                                  *)
(***************************************************************************)
Init ==
    /\ pc = "build_vgg"
    /\ InitShapes(<<lr_height, lr_width, channels>>, n_residual_blocks)
    /\ InitKeras
    /\ InitTrain
    /\ InitDirs
    /\ loaded = 0
    /\ InitScore

Next ==
    \/ BuildVgg
    \/ VggFreeze
    \/ VggCompile
    \/ SetDiscPatch
    \/ BuildDiscriminator
    \/ DiscCompile
    \/ BuildGenerator
    \/ DiscFreeze
    \/ CombinedCompile
    \/ CallTrain
    \/ ForEpoch
    \/ TrainReturn
    \/ LoadData
    \/ GeneratorPredict
    \/ MakeLabels
    \/ TrainDiscriminatorReal
    \/ TrainDiscriminatorFake
    \/ LoadData2
    \/ MakeValid
    \/ VggPredict
    \/ TrainCombined
    \/ EpochEnd
    \/ TestLoadData
    \/ TestLoadWeights
    \/ TestPredict
    \/ TestRescale
    \/ TestSaveImages
    \/ TestScore

Spec == Init /\ [][Next]_vars

(***************************************************************************)
(* SpecScore: the scoring part of test_images (lines 241-242, 265-266) for *)
(* every pair of pixel values.                                             *)
(***************************************************************************)
InitScoring ==
    /\ pc = "test_rescale"
    /\ InitShapes(<<lr_height, lr_width, channels>>, n_residual_blocks)
    /\ InitKeras
    /\ InitTrain
    /\ dirs \in {{"saved_model"}, {"saved_model", "res"}}
    /\ files = {WeightFile(TestEpoch, TestEpoch + 1, "earlier")}
    /\ loaded = TestEpoch
    /\ r \in ImageCounts
    /\ score_real = 0 /\ score_generated = 0
    /\ \E p \in Pixels, g \in Pixels :
          /\ img_real = p
          /\ img_generated = g

NextScore ==
    \/ TestRescale
    \/ TestSaveImages
    \/ TestScore

SpecScore == InitScoring /\ [][NextScore]_vars


(***************************************************************************)
(* Properties.                                                             *)
(***************************************************************************)
InitPcs == {"build_vgg", "vgg_trainable", "vgg_compile", "disc_patch",
            "build_discriminator", "disc_compile", "build_generator",
            "disc_trainable", "combined_compile"}
BodyPcs == {"load_data", "generate", "labels", "d_real", "d_fake", "load_data2",
            "valid", "features", "g_train", "epoch_end"}
TrainPcs == BodyPcs \cup {"loop"}

Indices(layers, op) == {i \in 1..Len(layers) : layers[i].op = op}

KeepsSize(l) == l.out[1] = l.in[1] /\ l.out[2] = l.in[2]

\* C1: the generator maps (h, w, 3) to (4h, 4w, 3): every convolution has
\* stride 1 and keeps height and width, exactly two upsampling layers each
\* double height and width, the last layer has `channels` output channels, and
\* for the configured 64x64x3 input the output is 256x256x3 = hr_shape.
C1_GeneratorUpscalesFourTimes ==
    generator # <<>> =>
        /\ generator[1].in = lr_shape
        /\ Out(generator) = <<4 * lr_shape[1], 4 * lr_shape[2], 3>>
        /\ Out(generator)[3] = channels
        /\ \A i \in Indices(generator, "Conv2D") :
              generator[i].strides = 1 /\ KeepsSize(generator[i])
        /\ Cardinality(Indices(generator, "UpSampling2D")) = 2
        /\ \A i \in Indices(generator, "UpSampling2D") :
              /\ generator[i].out[1] = 2 * generator[i].in[1]
              /\ generator[i].out[2] = 2 * generator[i].in[2]
        /\ \A i \in 1..Len(generator) :
              generator[i].op \notin {"Conv2D", "UpSampling2D"} => KeepsSize(generator[i])
        /\ lr_shape = <<64, 64, 3>> =>
              Out(generator) = <<256, 256, 3>> /\ Out(generator) = hr_shape

C1_Witness ==
    /\ generator # <<>>
    /\ lr_shape = <<64, 64, 3>>
    /\ nblocks = 16
    /\ Out(generator) = <<256, 256, 3>>

ExpectedSteps == <<"load_data", "generator.predict", "discriminator.train_on_batch",
                   "discriminator.train_on_batch", "load_data", "vgg.predict",
                   "combined.train_on_batch">>

\* The number of the seven steps done when train is at each place of the body.
StepsDone(p) ==
    CASE p = "load_data" -> 0
      [] p = "generate" -> 1
      [] p \in {"labels", "d_real"} -> 2
      [] p = "d_fake" -> 3
      [] p = "load_data2" -> 4
      [] p \in {"valid", "features"} -> 5
      [] p = "g_train" -> 6
      [] p = "epoch_end" -> 7

\* The first n calls of the iteration are the first n steps, on the right data.
StepsInOrder(n) ==
    /\ Len(calls) >= n
    /\ \A i \in 1..n : calls[i].step = ExpectedSteps[i]
    /\ n >= 2 => calls[2].x = Tensor("lr", calls[1].out)
    /\ n >= 3 => calls[3].x = Tensor("hr", calls[1].out)
    /\ n >= 4 => calls[4].x = Tensor("fake", calls[1].out)
    /\ n >= 5 => calls[5].out = calls[1].out + 1
    /\ n >= 6 => calls[6].x = Tensor("hr", calls[5].out)
    /\ n >= 7 => calls[7].x[1] = Tensor("lr", calls[5].out)

CountSteps(step) == Cardinality({i \in 1..Len(calls) : calls[i].step = step})

\* The state after train has ended: it returned, or an exception left it.
TrainEnded == pc \in {"main_test", "train_raised"}

\* C2: train(epochs) runs exactly `epochs` iterations, epoch = 0 .. epochs-1,
\* and then ends; in every iteration the seven steps (load, generate, train
\* discriminator on real, on generated, load again, VGG features, train the
\* combined model) happen once each in this order, so the discriminator
\* updates of an epoch precede its generator update.
C2_TrainOrder ==
    /\ pc \in BodyPcs =>
          /\ Len(calls) = StepsDone(pc)
          /\ StepsInOrder(StepsDone(pc))
          /\ InRange(epoch, epochs)
    /\ (pc = "loop" /\ iterations > 0) =>
          /\ StepsInOrder(7)
          /\ \A i \in 8..Len(calls) : calls[i].step \notin {ExpectedSteps[j] : j \in 1..7}
    /\ pc \in TrainPcs =>
          /\ iterations = epoch
          /\ iterations <= epochs
          /\ weights["discriminator"] =
                2 * iterations
                + (IF pc = "loop" THEN 0 ELSE CountSteps("discriminator.train_on_batch"))
          /\ weights["generator"] =
                iterations
                + (IF pc = "loop" THEN 0 ELSE CountSteps("combined.train_on_batch"))
    /\ pc \notin (TrainPcs \cup InitPcs \cup {"main"}) => iterations = epochs

\* C3: the VGG weights are never changed, by construction or by any step of
\* train: the VGG network is non-trainable before the combined model (and its
\* own model) is compiled, no compiled model trains it, and train only calls
\* predict on it.
C3_VggFixed ==
    /\ weights["vgg"] = 0
    /\ \A m \in Models : compiled[m].done =>
          ~trainable["vgg"] /\ "vgg" \notin compiled[m].collected
    /\ \A i \in 1..Len(calls) :
          calls[i].step \in {"vgg.predict", "vgg.train_on_batch"} =>
              calls[i].step = "vgg.predict" /\ calls[i].y = NoLabels

C3_Witness ==
    /\ pc = "main_test"
    /\ epochs = 501
    /\ weights["generator"] = 501
    /\ weights["vgg"] = 0

\* C4: the discriminator's own compiled model trains the discriminator only
\* and the combined model trains the generator only: each discriminator
\* train_on_batch changes the discriminator's weights and leaves the
\* generator's unchanged, the combined train_on_batch changes the generator's
\* weights and leaves the discriminator's unchanged.
C4_Collected ==
    /\ compiled["discriminator"].done =>
          compiled["discriminator"].collected = {"discriminator"}
    /\ compiled["combined"].done =>
          /\ compiled["combined"].collected = {"generator"}
          /\ ~trainable["discriminator"]
          /\ compiled["discriminator"].done

C4_Step ==
    /\ pc \in {"d_real", "d_fake"} =>
          /\ weights'["discriminator"] # weights["discriminator"]
          /\ weights'["generator"] = weights["generator"]
    /\ pc = "g_train" =>
          /\ weights'["generator"] # weights["generator"]
          /\ weights'["discriminator"] = weights["discriminator"]
    /\ pc \in (TrainPcs \ {"d_real", "d_fake", "g_train"}) => weights' = weights

C4_AlternatingDisjoint == []C4_Collected /\ [][C4_Step]_vars

C4_Witness ==
    /\ pc = "epoch_end"
    /\ iterations = 1
    /\ weights["discriminator"] = 4
    /\ weights["generator"] = 2

\* C5: the discriminator's output shape is disc_patch = (256 / 16, 256 / 16, 1)
\* = (16, 16, 1): its four stride-2 convolutions halve height and width, all
\* other layers keep them, the last layer has one channel; the label arrays
\* valid and fake have the shape of the discriminator's output for the batch.
C5_PatchShape ==
    discriminator # <<>> =>
        /\ discriminator[1].in = hr_shape
        /\ hr_shape = <<256, 256, 3>>
        /\ Out(discriminator) = disc_patch
        /\ disc_patch = <<hr_shape[1] \div 16, hr_shape[2] \div 16, 1>>
        /\ disc_patch = <<16, 16, 1>>
        /\ Cardinality({i \in Indices(discriminator, "Conv2D") :
                           discriminator[i].strides = 2}) = 4
        /\ \A i \in 1..Len(discriminator) :
              IF discriminator[i].strides = 2
              THEN /\ 2 * discriminator[i].out[1] = discriminator[i].in[1]
                   /\ 2 * discriminator[i].out[2] = discriminator[i].in[2]
              ELSE KeepsSize(discriminator[i])
        /\ valid # NoLabels => valid.shape = BatchOut(batch_size, discriminator)
        /\ fake # NoLabels => fake.shape = BatchOut(batch_size, discriminator)

C5_Witness ==
    /\ pc = "d_real"
    /\ batch_size = 2
    /\ valid.shape = <<2, 16, 16, 1>>
    /\ fake.shape = <<2, 16, 16, 1>>
    /\ Out(discriminator) = <<16, 16, 1>>

\* C6: every discriminator update pairs real images with all ones or generated
\* images with all zeros, never the reverse; every combined update uses all
\* ones and the VGG features of the high-resolution images of the batch whose
\* low-resolution images it feeds to the generator.
C6_Targets ==
    /\ \A i \in 1..Len(calls) :
          /\ calls[i].step = "discriminator.train_on_batch" =>
                \/ calls[i].x[1] = "hr" /\ calls[i].y.value = 1
                \/ calls[i].x[1] = "fake" /\ calls[i].y.value = 0
          /\ calls[i].step = "combined.train_on_batch" =>
                /\ calls[i].y[1].value = 1
                /\ calls[i].x[1][1] = "lr"
                /\ calls[i].x[2] = Tensor("hr", calls[i].x[1][2])
                /\ calls[i].y[2] = Tensor("features", calls[i].x[1][2])
    /\ pc = "epoch_end" =>
          /\ calls[3].x[1] = "hr"
          /\ calls[4].x[1] = "fake"

C6_Witness ==
    /\ pc = "epoch_end"
    /\ epoch = 1
    /\ calls[3].y.value = 1
    /\ calls[4].y.value = 0
    /\ calls[7].y[1].value = 1
    /\ calls[7].y[2] = Tensor("features", calls[5].out)

\* C7: the pixels handed to psnr and ssim cover 0..255: a generator output of
\* -1 (held as 0.5 * (-1) + 0.5 = 0 after line 241) is scored as 0, an output
\* of 1 (held as 1) as 255, and the cast does not wrap.
C7_FullRange ==
    pc = "done" =>
        /\ score_generated \in 0..255
        /\ score_real \in 0..255
        /\ BeforeCast(img_generated)[1] < 256 * BeforeCast(img_generated)[2]
        /\ img_generated[1] = 0 => score_generated = 0
        /\ img_generated[1] = img_generated[2] => score_generated = 255
        /\ img_real[1] = 0 => score_real = 0
        /\ img_real[1] = img_real[2] => score_real = 255

\* The interval C8 names, for the sample_interval the caller passed.
ClaimedInterval(e) ==
    IF e <= 30 THEN arg_sample_interval ELSE IF e <= 100 THEN 10 ELSE 50

\* C8, the sampled epochs: after every iteration, and when train has ended,
\* the epochs with a sample image are exactly the epochs e run so far with
\* e % interval(e) = 0, interval(e) being the caller's sample_interval up to
\* epoch 30, 10 for epochs 31..100 and 50 after; epoch 0 is sampled.
C8_Sampled ==
    /\ pc \in {"loop", "main_test"} =>
          samples = {e \in 0..(iterations - 1) : e % ClaimedInterval(e) = 0}
    /\ pc = "train_raised" =>
          samples = {e \in 0..epoch : e % ClaimedInterval(e) = 0}
    /\ pc \notin (InitPcs \cup {"main"}) =>
          /\ \A e \in samples : e < epochs /\ e % ClaimedInterval(e) = 0
          /\ (iterations >= 1 \/ pc = "train_raised") => 0 \in samples
          /\ pc \in BodyPcs => sample_interval = ClaimedInterval(epoch)

\* The interval is lowered only by the first change of it (at epoch 31, from
\* the caller's value): never after it was raised.
C8_Step ==
    (pc = "loop" /\ sample_interval' < sample_interval) =>
        /\ epoch = 31
        /\ sample_interval = arg_sample_interval

\* C8: train saves a sample image exactly at the epochs e with
\* e % interval(e) = 0 (C8_Sampled), epoch 0 always; the interval is never
\* lowered after it was raised.
C8_SampleEpochs == []C8_Sampled /\ [][C8_Step]_vars

\* The weight files train wrote in this run.
Written == {f \in files : f.by = "train"}
WrittenEpochs == {f.epoch : f \in Written}
FileEpochs == {f.epoch : f \in files}

\* C9: train writes saved_model/<e>.h5 exactly at the epochs e with
\* 0 < e < epochs and e % 500 = 0, never at epoch 0; so a run has written
\* 2000.h5 exactly when it had epochs > 2000, and test_images loads only
\* 2000.h5, and only when the file exists.
C9_SavedWeights ==
    /\ \A f \in Written : f.epoch % 500 = 0 /\ 0 < f.epoch /\ f.epoch < epochs
    /\ 0 \notin WrittenEpochs
    /\ pc = "loop" =>
          WrittenEpochs = {e \in 1..(iterations - 1) : e % 500 = 0}
    /\ TrainEnded =>
          /\ WrittenEpochs = {e \in 1..(epochs - 1) : e % 500 = 0}
          /\ 2000 \in WrittenEpochs <=> epochs > 2000
    /\ loaded \in {0, 2000}
    /\ loaded = 2000 => 2000 \in FileEpochs
    /\ pc \in {"test_predict", "test_rescale", "test_save", "test_score", "done"} =>
          loaded = 2000
    /\ pc = "error" => (loaded = 0 /\ 2000 \notin FileEpochs)

ResidualBlocks == {i \in Indices(generator, "Add") : generator[i].blk = "residual"}

\* C10: the generator has exactly n_residual_blocks residual blocks between
\* the pre-residual and the post-residual convolution, for every
\* n_residual_blocks >= 0, and the two inputs of every Add have one shape.
C10_ResidualBlocks ==
    generator # <<>> =>
        /\ Cardinality(ResidualBlocks) = nblocks
        /\ \A i \in ResidualBlocks : 2 < i /\ i < Len(generator) - 9
        /\ \A i \in Indices(generator, "Add") :
              generator[i].in = generator[i].skip /\ generator[i].out = generator[i].in

====
